---- MODULE Spec2Model ----
(***************************************************************************)
(* The cursor-paginated, debounced-search list-view controller that every  *)
(* entity table of the dashboard re-implements (SendersTable and its       *)
(* siblings), as a state machine.                                          *)
(*                                                                         *)
(* One step of the model is one macrotask of the browser: an event         *)
(* handler, a timer callback or the continuation of an awaited request,    *)
(* together with the re-render React performs for the batched state        *)
(* updates and the effects that re-render schedules.                       *)
(***************************************************************************)
EXTENDS Integers, Sequences, FiniteSets, Bags, TLC

\* ---------------------------------------------------------------- bounds
NumPageSizes == 1
NumCursors == 2
NumTerms == 1
MaxKeys == 2
MaxInflight == 2
MaxMutations == 1
MaxClicks == 5
MaxBurst == 2
MaxActs == 4
MaxSchedules == 2
MaxRuns == 1
NumYears == 2
NumRecords == 2
MaxLoads == 2

\* ------------------------------------------------------ program constants
DebounceMs == 500
InitialPageSize == 10
GridCells == 42
AllPageSizes == <<2, 5, 10, 20, 50>>

TickMs == DebounceMs \div 2
AllCursors == <<"c1", "c2", "c3", "c4">>
AllTerms == <<"a", "ab", "abc">>

PageSizes == {AllPageSizes[i] : i \in 1..NumPageSizes} \cup {InitialPageSize}
Cursors == {AllCursors[i] : i \in 1..NumCursors}
SearchValues == {""} \cup {AllTerms[i] : i \in 1..NumTerms}
\* SendersTable keys its fetch effect on (pageIndex, pageSize, searchTerm);
\* CampaignsTable has no search and also keys the effect on pageKeys.
Tables == {"senders", "campaigns"}

VARIABLES
  mounted,           \* the component is mounted; setState after unmount is ignored
  table,             \* which of the two controller variants this instance is
  data,              \* the rows displayed: <<>> or the one page a response delivered
  loading,
  error,
  pageIndex,
  pageSize,
  lastEvaluatedKey,
  hasNextPage,
  hasPreviousPage,
  pageKeys,
  searchTerm,
  searchInput,
  timeoutId,         \* the timer id held by the debouncedSearch closure, 0 = unset
  timers,            \* pending setTimeout callbacks: [id, value, left]
  inflight,          \* bag of list requests awaiting their response
  mutations,         \* bag of create / update / delete requests awaiting theirs
  lastOp,            \* history: the step that produced this state
  sinceKey,          \* history: ms elapsed since the last keystroke
  burst,             \* history: keystrokes of the current (or last) burst
  lastRespKey,       \* history: lastEvaluatedKey of the latest successful list response
  clicks,            \* history: the user's clicks, recorded by SpecExample
  log,               \* history: cursors of the list requests, from the mount fetch
                     \* on, recorded by SpecExample
  budget,            \* history: user actions left in a bounded session, -1 = no limit
  minted,            \* history: the cursors list responses returned, each with the
                     \* limit and search of its request, recorded by SpecCursors
  \* Calendar and ScheduleEventModal
  events,            \* Calendar: the events shown, <<>> for an absent campaign
  calendarLoading,   \* Calendar: loading
  selectedEvent,     \* <<>> for null, else <<event>>
  isModalOpen,
  audience,          \* ScheduleEventModal: <<>> for null, else <<entity>>
  sender,
  template,
  modalLoading,      \* ScheduleEventModal: loading
  schedules,         \* fetchScheduledCampaigns: schedules.results
  calendarEvents,    \* fetchScheduledCampaigns: the local list being filled
  calls,             \* requests of fetchScheduledCampaigns awaiting their response
  related,           \* bag of fetchRelatedData calls awaiting Promise.all
  deletes,           \* bag of schedule delete requests awaiting their response
  serverSchedules,   \* history: ids of the schedules the server holds
  lookupFailed,      \* history: indices of the campaign lookups that failed
  lastRun,           \* history: <<>> or the fetchRelatedData call that settled last
  \* SendPage
  sending,
  sends,             \* sendEmail requests awaiting their response
  \* Calendar month view
  currentDate,       \* the day number (days since 1970-01-01) of currentDate
  \* The edit modal of the table (EditSenderModal, EditCampaignModal)
  isEditModalOpen,
  selectedSenderId,  \* 0 for null
  formData,          \* [values, origin]; origin is history: the record the values
                     \* were loaded from, 0 for the blank form
  errors,            \* the fields that carry a validation message
  isSubmitting,
  isLoading,
  loads,             \* bag of getOne requests of the modal awaiting their response
  \* SendPageContent
  campaigns,         \* the ids of the campaigns the dropdown offers
  loadingCampaigns,
  selectedCampaignId, \* 0 for ""
  campaign,          \* <<>> for null, else <<id>>
  sendTemplate,      \* template: <<>> for null, else <<id of its campaign>>
  sendLoading,       \* loading
  dataLoads,         \* bag of loadData calls awaiting a response: [id, phase]
  lastSend,          \* history: <<>> or the latest send request with the
                     \* selection it was sent under, <<[emailId, selected]>>
  \* The pages
  session,           \* what auth0.getSession() resolves to: a session or null
  route,             \* the route the browser is at, "" before the first request
  content            \* the page whose content is rendered, "" for none

ctlVars == <<mounted, table, data, loading, error, pageIndex, pageSize, lastEvaluatedKey,
             hasNextPage, hasPreviousPage, pageKeys,
             searchTerm, searchInput, timeoutId, timers, inflight, mutations,
             lastOp, sinceKey, burst, lastRespKey>>
vars == <<mounted, table, data, loading, error, pageIndex, pageSize, lastEvaluatedKey,
          hasNextPage, hasPreviousPage, pageKeys,
          searchTerm, searchInput, timeoutId, timers, inflight, mutations,
          lastOp, sinceKey, burst, lastRespKey, clicks, log, budget, minted,
          events, calendarLoading, selectedEvent, isModalOpen, audience, sender,
          template, modalLoading, schedules, calendarEvents, calls, related, deletes,
          serverSchedules, lookupFailed, lastRun, sending, sends,
          currentDate,
          isEditModalOpen, selectedSenderId, formData, errors, isSubmitting, isLoading,
          loads,
          campaigns, loadingCampaigns, selectedCampaignId, campaign, sendTemplate,
          sendLoading, dataLoads, lastSend,
          session, route, content>>
\* The state of the other pages' components.
dateVars == <<currentDate>>
editVars == <<isEditModalOpen, selectedSenderId, formData, errors, isSubmitting,
              isLoading, loads>>
pageVars == <<dateVars, editVars>>
selVars == <<campaigns, loadingCampaigns, selectedCampaignId, campaign, sendTemplate,
             sendLoading, dataLoads, lastSend>>
gateVars == <<session, route, content>>
\* The state of the table components, and that of the calendar and send pages.
tableVars == <<mounted, table, data, loading, error, pageIndex, pageSize,
               lastEvaluatedKey, hasNextPage, hasPreviousPage, pageKeys,
               searchTerm, searchInput, timeoutId, timers, inflight, mutations,
               sinceKey, burst, lastRespKey>>
calVars == <<events, calendarLoading, selectedEvent, isModalOpen, audience, sender,
             template, modalLoading, schedules, calendarEvents, calls, related, deletes,
             serverSchedules, lookupFailed, lastRun, sending, sends>>

\* ------------------------------------------------------------------ dates
\* A Date is modelled by its day number in local time; the time of day plays
\* no part in the month view.  Months are 0..11 and days of the week 0..6 with
\* 0 = Sunday, as in the Date API.
FirstYear == 2024
IsLeap(y) == (y % 4 = 0 /\ y % 100 # 0) \/ y % 400 = 0
DaysIn(y, m) ==
  IF m = 1 THEN (IF IsLeap(y) THEN 29 ELSE 28)
  ELSE IF m \in {3, 5, 8, 10} THEN 30 ELSE 31
LeapsBefore(y) == ((y - 1) \div 4) - ((y - 1) \div 100) + ((y - 1) \div 400)
DaysBeforeYear(y) == 365 * (y - 1970) + LeapsBefore(y) - LeapsBefore(1970)
RECURSIVE DaysBeforeMonth(_, _)
DaysBeforeMonth(y, m) == IF m = 0 THEN 0 ELSE DaysBeforeMonth(y, m - 1) + DaysIn(y, m - 1)

\* new Date(year, month, day): month and day outside their range carry over.
MakeDate(y, m, d) ==
  LET yy == y + (m \div 12)
      mm == m % 12
  IN  DaysBeforeYear(yy) + DaysBeforeMonth(yy, mm) + d - 1

getFullYear(t) ==
  CHOOSE y \in (FirstYear - 2)..(FirstYear + NumYears + 1) :
    DaysBeforeYear(y) <= t /\ t < DaysBeforeYear(y + 1)
getMonth(t) ==
  CHOOSE m \in 0..11 :
    MakeDate(getFullYear(t), m, 1) <= t /\ t < MakeDate(getFullYear(t), m + 1, 1)
getDate(t) == t - MakeDate(getFullYear(t), getMonth(t), 1) + 1
getDay(t) == (t + 4) % 7
\* date.setMonth(m) and date.setDate(d) keep the other fields.
setMonth(t, m) == MakeDate(getFullYear(t), m, getDate(t))
setDate(t, d) == MakeDate(getFullYear(t), getMonth(t), d)

\* The days `new Date()` can return.
Days == MakeDate(FirstYear, 0, 1)..MakeDate(FirstYear + NumYears, 0, 0)

\* ------------------------------------------------------------ edit forms
\* Three fields stand for the form of each edit modal: a text field that is
\* trimmed, and two that are not.  Values: "" empty, " " blank text, "bad"
\* text that is not an email address, "v" a well-formed value.
FormFields(t) ==
  IF t = "senders" THEN {"email", "alias", "emailType"}
  ELSE {"name", "audienceId", "status"}
TextFields == {"email", "name"}
FieldValues(f) ==
  IF f = "email" THEN {"", " ", "bad", "v"}
  ELSE IF f \in TextFields THEN {"", " ", "v"}
  ELSE {"", "v"}
trim(v) == IF v = " " THEN "" ELSE v

\* The useState initial value, also set by the reset effect on close.
BlankForm(t) ==
  [values |-> [f \in FormFields(t) |-> IF f = "status" THEN "v" ELSE ""], origin |-> 0]

\* setFormData({...}) from the record getOne returned; full = FALSE is a record
\* whose second field is missing.
LoadedForm(t, id, full) ==
  [values |-> [f \in FormFields(t) |->
                 IF f \in {"alias", "audienceId"} /\ ~full THEN "" ELSE "v"],
   origin |-> id]

\* ---------------------------------------------------------------- helpers
\* loadData of SendPageContent, awaiting campaignsApi.getOne.
loadData(id) == [id |-> id, phase |-> "campaign"]

RECURSIVE AddAll(_, _)
AddAll(bag, s) == IF s = <<>> THEN bag ELSE AddAll(bag (+) SetToBag({Head(s)}), Tail(s))

\* pageKeys[pagination.pageIndex] || ""  (an index outside the array reads undefined)
KeyAt(keys, idx) == IF idx + 1 \in DOMAIN keys THEN keys[idx + 1] ELSE ""

\* The values a render closes over: handlers and fetchSenders created by a
\* render keep reading these even after the state has moved on.
Closure(idx, size, term, keys) ==
  [pageIndex |-> idx, pageSize |-> size, searchTerm |-> term, pageKeys |-> keys]

CurrentClosure == Closure(pageIndex, pageSize, searchTerm, pageKeys)

\* fetchSenders(lastKey) of the render with closure cl: the list request it sends.
\* previous is what setHasPreviousPage(pagination.pageIndex > 0) will store when
\* the response arrives: the continuation reads the pageIndex of its own render.
fetchSenders(lastKey, cl, via) ==
  [lastKey |-> lastKey, limit |-> cl.pageSize,
   search |-> IF table = "campaigns" THEN "" ELSE cl.searchTerm,
   previous |-> (cl.pageIndex > 0), via |-> via]

\* The fetch effect of the re-render that follows a batch of state updates:
\* it runs when one of its dependencies differs from the previous render.
useEffectFetch(keysSet) ==
  IF \/ <<pageIndex', pageSize', searchTerm'>> # <<pageIndex, pageSize, searchTerm>>
     \/ (table = "campaigns" /\ keysSet)
  THEN <<fetchSenders(KeyAt(pageKeys', pageIndex'),
                      Closure(pageIndex', pageSize', searchTerm', pageKeys'),
                      "effect")>>
  ELSE <<>>

\* Requests sent by one step: those the handler sends itself, then the effect's.
Issue(direct, keysSet) ==
  LET issued == direct \o useEffectFetch(keysSet) IN
  /\ inflight' = AddAll(inflight, issued)
  /\ loading' = (loading \/ issued # <<>>)
  /\ BagCardinality(inflight') <= MaxInflight

\* Variant: the error placeholder does not replace the table.
Rendered_NoErrorPanel == mounted /\ ~loading

\* What the component returns: the table and its controls are rendered only
\* when neither the loading nor the error placeholder short-circuits it.
Rendered == mounted /\ ~loading /\ ~error

\* ------------------------------------------------------------------- Init
Init ==
  /\ mounted = TRUE
  /\ table \in Tables
  /\ data = <<>>
  /\ loading = TRUE
  /\ error = FALSE
  /\ pageIndex = 0
  /\ pageSize = InitialPageSize
  /\ lastEvaluatedKey = ""
  /\ hasNextPage = FALSE
  /\ hasPreviousPage = FALSE
  /\ pageKeys = <<"">>
  /\ searchTerm = ""
  /\ searchInput = ""
  /\ timeoutId = 0
  /\ timers = {}
  /\ inflight = SetToBag({fetchSenders("", Closure(0, InitialPageSize, "", <<"">>), "effect")})
  /\ mutations = EmptyBag
  /\ lastOp = "mount"
  /\ sinceKey = 0
  /\ burst = 0
  /\ lastRespKey = "none"
  /\ clicks = <<>>
  /\ log = <<"">>
  /\ budget \in -1..MaxActs
  /\ minted = {}
  /\ events = <<>>
  /\ calendarLoading = TRUE
  /\ selectedEvent = <<>>
  /\ isModalOpen = FALSE
  /\ audience = <<>>
  /\ sender = <<>>
  /\ template = <<>>
  /\ modalLoading = FALSE
  /\ schedules = <<>>
  /\ calendarEvents = <<>>
  /\ calls = {[kind |-> "list", index |-> 0]}
  /\ related = EmptyBag
  /\ deletes = EmptyBag
  /\ serverSchedules = {}
  /\ lookupFailed = {}
  /\ lastRun = <<>>
  /\ sending = FALSE
  /\ sends = 0
  /\ currentDate \in Days
  /\ isEditModalOpen = FALSE
  /\ selectedSenderId = 0
  /\ formData = BlankForm(table)
  /\ errors = {}
  /\ isSubmitting = FALSE
  /\ isLoading = FALSE
  /\ loads = EmptyBag
  /\ campaigns = {}
  /\ loadingCampaigns = TRUE
  /\ selectedCampaignId \in 0..NumRecords
  /\ campaign = <<>>
  /\ sendTemplate = <<>>
  /\ sendLoading = (selectedCampaignId # 0)
  /\ dataLoads = IF selectedCampaignId = 0 THEN EmptyBag
                 ELSE SetToBag({loadData(selectedCampaignId)})
  /\ lastSend = <<>>
  /\ session \in BOOLEAN
  /\ route = ""
  /\ content = ""

\* ------------------------------------------------------------- navigation
\* Variant: the cursor of a page already visited is refreshed on every visit.
NextPageKeys_Refresh(keys, newPageIndex, lek) ==
  IF newPageIndex >= Len(keys) THEN Append(keys, lek)
  ELSE [keys EXCEPT ![newPageIndex + 1] = lek]

NextPageKeys(keys, newPageIndex, lek) ==
  IF newPageIndex >= Len(keys) THEN Append(keys, lek) ELSE keys

\* Variant: the handler advances without looking at hasNextPage or the cursor.
handleNextPage_Unguarded ==
  /\ pageKeys' = NextPageKeys(pageKeys, pageIndex + 1, lastEvaluatedKey)
  /\ pageIndex' = pageIndex + 1
  /\ UNCHANGED <<mounted, table, data, error, pageSize, lastEvaluatedKey, hasNextPage,
                 hasPreviousPage, searchTerm,
                 searchInput, timeoutId, timers, mutations, sinceKey, burst, lastRespKey>>
  /\ Issue(<<>>, pageIndex + 1 >= Len(pageKeys))
  /\ lastOp' = "next"

handleNextPage ==
  IF hasNextPage /\ lastEvaluatedKey # ""
  THEN /\ pageKeys' = NextPageKeys(pageKeys, pageIndex + 1, lastEvaluatedKey)
       /\ pageIndex' = pageIndex + 1
       /\ UNCHANGED <<mounted, table, data, error, pageSize, lastEvaluatedKey, hasNextPage,
                      hasPreviousPage, searchTerm,
                      searchInput, timeoutId, timers, mutations, sinceKey, burst, lastRespKey>>
       /\ Issue(<<>>, pageIndex + 1 >= Len(pageKeys))
       /\ lastOp' = "next"
  ELSE UNCHANGED ctlVars

\* Variant: Previous jumps back to the first page.
PreviousIndex_First(idx) == 0

PreviousIndex(idx) == idx - 1

handlePreviousPage ==
  IF hasPreviousPage
  THEN /\ pageIndex' = PreviousIndex(pageIndex)
       /\ UNCHANGED <<mounted, table, data, error, pageSize, lastEvaluatedKey, hasNextPage,
                      hasPreviousPage, pageKeys,
                      searchTerm, searchInput, timeoutId, timers, mutations,
                      sinceKey, burst, lastRespKey>>
       /\ Issue(<<>>, FALSE)
       /\ lastOp' = "prev"
  ELSE UNCHANGED ctlVars

\* The Next / Previous buttons: disabled={!hasNextPage || loading}.
ClickNext ==
  /\ Rendered /\ hasNextPage
  /\ pageIndex + 1 < MaxKeys
  /\ handleNextPage

ClickPrevious ==
  /\ Rendered /\ hasPreviousPage
  /\ handlePreviousPage

\* ----------------------------------------------------------------- fetch
\* Variant: a response is applied only when no other list request is in
\* flight; a superseded one just ends loading.
fetchSendersDone_LatestOnly(req, ok, key) ==
  /\ IF ok /\ BagCardinality(inflight) = 1
     THEN /\ data' = <<[lastKey |-> req.lastKey, limit |-> req.limit, search |-> req.search]>>
          /\ lastEvaluatedKey' = key
          /\ hasNextPage' = (key # "")
          /\ hasPreviousPage' = req.previous
          /\ error' = FALSE
          /\ lastRespKey' = key
          /\ lastOp' = "listOk"
     ELSE IF ok
     THEN /\ lastRespKey' = key
          /\ lastOp' = "listOk"
          /\ UNCHANGED <<data, lastEvaluatedKey, hasNextPage, hasPreviousPage, error>>
     ELSE /\ error' = TRUE
          /\ lastOp' = "listFail"
          /\ UNCHANGED <<data, lastEvaluatedKey, hasNextPage, hasPreviousPage, lastRespKey>>
  /\ loading' = FALSE

\* Variant: a failed response also empties the list.
fetchSendersDone_ClearOnFail(req, ok, key) ==
  /\ IF ok
     THEN /\ data' = <<[lastKey |-> req.lastKey, limit |-> req.limit, search |-> req.search]>>
          /\ lastEvaluatedKey' = key
          /\ hasNextPage' = (key # "")
          /\ hasPreviousPage' = req.previous
          /\ error' = FALSE
          /\ lastRespKey' = key
          /\ lastOp' = "listOk"
     ELSE /\ error' = TRUE
          /\ data' = <<>>
          /\ lastOp' = "listFail"
          /\ UNCHANGED <<lastEvaluatedKey, hasNextPage, hasPreviousPage, lastRespKey>>
  /\ loading' = FALSE

\* Variant: a successful response always enables Next.
fetchSendersDone_AlwaysNext(req, ok, key) ==
  /\ IF ok
     THEN /\ data' = <<[lastKey |-> req.lastKey, limit |-> req.limit, search |-> req.search]>>
          /\ lastEvaluatedKey' = key
          /\ hasNextPage' = TRUE
          /\ hasPreviousPage' = req.previous
          /\ error' = FALSE
          /\ lastRespKey' = key
          /\ lastOp' = "listOk"
     ELSE /\ error' = TRUE
          /\ lastOp' = "listFail"
          /\ UNCHANGED <<data, lastEvaluatedKey, hasNextPage, hasPreviousPage, lastRespKey>>
  /\ loading' = FALSE

\* The continuation of fetchSenders after `await sendersApi.list(...)`.
fetchSendersDone(req, ok, key) ==
  /\ IF ok
     THEN /\ data' = <<[lastKey |-> req.lastKey, limit |-> req.limit, search |-> req.search]>>
          /\ lastEvaluatedKey' = key
          /\ hasNextPage' = (key # "")
          /\ hasPreviousPage' = req.previous
          /\ error' = FALSE
          /\ lastRespKey' = key
          /\ lastOp' = "listOk"
     ELSE /\ error' = TRUE
          /\ lastOp' = "listFail"
          /\ UNCHANGED <<data, lastEvaluatedKey, hasNextPage, hasPreviousPage, lastRespKey>>
  /\ loading' = FALSE

ListResponse(req, ok, key) ==
  /\ BagIn(req, inflight)
  /\ fetchSendersDone(req, ok, key)
  /\ inflight' = inflight (-) SetToBag({req})
  /\ UNCHANGED <<mounted, table, pageIndex, pageSize, pageKeys,
                 searchTerm, searchInput, timeoutId, timers, mutations, sinceKey, burst>>

\* -------------------------------------------------------------- page size
\* Variant: the page size changes but the cursor history is kept.
handlePageSizeChange_KeepKeys(value) ==
  /\ pageIndex' = 0
  /\ pageSize' = value
  /\ lastEvaluatedKey' = ""
  /\ hasNextPage' = FALSE
  /\ hasPreviousPage' = FALSE
  /\ UNCHANGED <<mounted, table, data, error, pageKeys, searchTerm, searchInput, timeoutId,
                 timers, mutations, sinceKey, burst, lastRespKey>>
  /\ Issue(<<>>, FALSE)
  /\ lastOp' = "pageSize"

handlePageSizeChange(value) ==
  /\ pageIndex' = 0
  /\ pageSize' = value
  /\ pageKeys' = <<"">>
  /\ lastEvaluatedKey' = ""
  /\ hasNextPage' = FALSE
  /\ hasPreviousPage' = FALSE
  /\ UNCHANGED <<mounted, table, data, error, searchTerm,
                 searchInput, timeoutId, timers, mutations, sinceKey, burst, lastRespKey>>
  /\ Issue(<<>>, TRUE)
  /\ lastOp' = "pageSize"

\* The page-size Select reports a value only when it differs from the shown one.
SelectPageSize(value) ==
  /\ Rendered
  /\ value \in PageSizes \ {pageSize}
  /\ handlePageSizeChange(value)

\* ----------------------------------------------------------------- search
FreshTimerId(pending) ==
  CHOOSE n \in 1..(Cardinality(pending) + 1) :
    /\ n \notin {t.id : t \in pending}
    /\ \A m \in 1..(n - 1) : m \in {t.id : t \in pending}

\* Variant: the pending timer is not cleared before the new one is set.
debouncedSearch_NoClear(value) ==
  LET id == FreshTimerId(timers)
  IN /\ timers' = timers \cup {[id |-> id, value |-> value, left |-> DebounceMs]}
     /\ timeoutId' = id

\* clearTimeout(timeoutId); timeoutId = setTimeout(callback, 500)
debouncedSearch(value) ==
  LET kept == {t \in timers : t.id # timeoutId}
      id == FreshTimerId(kept)
  IN /\ timers' = kept \cup {[id |-> id, value |-> value, left |-> DebounceMs]}
     /\ timeoutId' = id

handleSearchChange(value) ==
  /\ searchInput' = value
  /\ debouncedSearch(value)
  /\ sinceKey' = 0
  /\ burst' = IF timers = {} THEN 1 ELSE burst + 1
  /\ UNCHANGED <<mounted, table, data, error, pageIndex, pageSize, pageKeys, lastEvaluatedKey,
                 hasNextPage, hasPreviousPage, searchTerm, mutations, lastRespKey>>
  /\ Issue(<<>>, FALSE)
  /\ lastOp' = "keystroke"

\* The search Input of the table header (its JSX is commented out in the
\* tables as shipped): onChange carries a changed value to handleSearchChange.
TypeSearch(value) ==
  /\ Rendered
  /\ table = "senders"
  /\ value \in SearchValues \ {searchInput}
  /\ burst < MaxBurst \/ timers = {}
  /\ handleSearchChange(value)

\* Time passes while a timer is pending; a due timer runs before time moves on.
Tick ==
  /\ timers # {}
  /\ \A t \in timers : t.left >= TickMs
  /\ timers' = {[t EXCEPT !.left = @ - TickMs] : t \in timers}
  /\ sinceKey' = sinceKey + TickMs
  /\ lastOp' = "tick"
  /\ UNCHANGED <<mounted, table, data, loading, error, pageIndex, pageSize, lastEvaluatedKey,
                 hasNextPage, hasPreviousPage, pageKeys, searchTerm, searchInput,
                 timeoutId, inflight, mutations, burst, lastRespKey>>

\* The setTimeout callback of debouncedSearch: the search commit.
searchCommit(value) ==
  /\ searchTerm' = value
  /\ pageIndex' = 0
  /\ pageKeys' = <<"">>
  /\ lastEvaluatedKey' = ""
  /\ hasNextPage' = FALSE
  /\ hasPreviousPage' = FALSE

TimerFires(t) ==
  /\ t \in timers
  /\ t.left = 0
  /\ searchCommit(t.value)
  /\ timers' = timers \ {t}
  /\ sinceKey' = 0
  /\ UNCHANGED <<mounted, table, data, error, pageSize, searchInput, timeoutId, mutations,
                 burst, lastRespKey>>
  /\ Issue(<<>>, TRUE)
  /\ lastOp' = "commit"

\* The user leaves the page: the component unmounts.  It registers no cleanup,
\* so pending timers and requests stay as they are.
Unmount ==
  /\ mounted
  /\ mounted' = FALSE
  /\ lastOp' = "unmount"
  /\ UNCHANGED <<table, data, loading, error, pageIndex, pageSize, lastEvaluatedKey,
                 hasNextPage, hasPreviousPage, pageKeys, searchTerm, searchInput,
                 timeoutId, timers, inflight, mutations, sinceKey, burst, lastRespKey>>

\* The debounce callback running after unmount: its setState calls are ignored.
LateTimerFires(t) ==
  /\ ~mounted
  /\ t \in timers
  /\ t.left = 0
  /\ timers' = timers \ {t}
  /\ lastOp' = "lateCommit"
  /\ UNCHANGED <<mounted, table, data, loading, error, pageIndex, pageSize, lastEvaluatedKey,
                 hasNextPage, hasPreviousPage, pageKeys, searchTerm, searchInput,
                 timeoutId, inflight, mutations, sinceKey, burst, lastRespKey>>

\* The continuation of fetchSenders running after unmount, likewise ignored.
LateListResponse(req) ==
  /\ ~mounted
  /\ BagIn(req, inflight)
  /\ inflight' = inflight (-) SetToBag({req})
  /\ lastOp' = "lateResponse"
  /\ UNCHANGED <<mounted, table, data, loading, error, pageIndex, pageSize, lastEvaluatedKey,
                 hasNextPage, hasPreviousPage, pageKeys, searchTerm, searchInput,
                 timeoutId, timers, mutations, sinceKey, burst, lastRespKey>>

\* -------------------------------------------------------------- mutations
\* fetchSenders("") as handleSenderAdded of the render with closure cl calls it.
handleSenderAddedFetch(cl) == fetchSenders("", cl, "handler")

\* fetchSenders(pageKeys[pageIndex] || "") as handleSenderUpdated of that render calls it.
handleSenderUpdatedFetch(cl) == fetchSenders(KeyAt(cl.pageKeys, cl.pageIndex), cl, "handler")

\* A mutation request leaves with the callbacks of the render that sent it:
\* refetch is the list request its success callback will send, confirmed is
\* whether the handler showed window.confirm and the user accepted it.
Request(kind, refetch, confirmed) ==
  [kind |-> kind, refetch |-> refetch, confirmed |-> confirmed]

Send(kind, refetch, confirmed) ==
  /\ BagCardinality(mutations) < MaxMutations
  /\ mutations' = mutations (+) SetToBag({Request(kind, refetch, confirmed)})
  /\ UNCHANGED <<mounted, table, data, loading, error, pageIndex, pageSize, lastEvaluatedKey,
                 hasNextPage, hasPreviousPage, pageKeys,
                 searchTerm, searchInput, timeoutId, timers, inflight, sinceKey, burst, lastRespKey>>

\* The add modal's handleSubmit (AddAudienceModal is the one in the sources)
\* up to the awaited create request.  The modals
\* are mounted whenever the table is rendered; opening one, filling the form
\* and closing it again touch no controller state and are not modelled.
SubmitCreate ==
  /\ Rendered
  /\ Send("create", handleSenderAddedFetch(CurrentClosure), FALSE)
  /\ lastOp' = "submitCreate"

\* EditSenderModal.handleSubmit up to `await sendersApi.update(...)`.
SubmitUpdate ==
  /\ Rendered
  /\ data # <<>>
  /\ Send("update", handleSenderUpdatedFetch(CurrentClosure), FALSE)
  /\ lastOp' = "submitUpdate"

\* handleDelete up to `await sendersApi.delete(...)`: it returns at once when
\* the user declines window.confirm.
handleDelete(accepted) ==
  /\ Rendered
  /\ data # <<>>
  /\ IF accepted
     THEN /\ Send("delete", handleSenderAddedFetch(CurrentClosure), TRUE)
          /\ lastOp' = "delete"
     ELSE /\ lastOp' = "declined"
          /\ UNCHANGED <<mounted, table, data, loading, error, pageIndex, pageSize, lastEvaluatedKey,
                         hasNextPage, hasPreviousPage, pageKeys, searchTerm, searchInput,
                         timeoutId, timers, inflight, mutations, sinceKey, burst, lastRespKey>>

\* handleArchive of the senders table with the archive toggle, up to
\* `await sendersApi.getOne(senderId)`: no dialog comes first.
handleArchive ==
  /\ Rendered
  /\ data # <<>>
  /\ Send("getOne", handleSenderAddedFetch(CurrentClosure), FALSE)
  /\ lastOp' = "archive"

\* handleArchive after getOne settles: on success `await sendersApi.update(...)`
\* with the active flag toggled, on failure the catch branch (a toast).
ArchiveLoaded(m, ok) ==
  /\ BagIn(m, mutations)
  /\ m.kind = "getOne"
  /\ mutations' = IF ok
                  THEN (mutations (-) SetToBag({m}))
                         (+) SetToBag({Request("toggle", m.refetch, m.confirmed)})
                  ELSE mutations (-) SetToBag({m})
  /\ lastOp' = IF ok THEN "archiveLoaded" ELSE "mutationFail"
  /\ UNCHANGED <<mounted, table, data, loading, error, pageIndex, pageSize, lastEvaluatedKey,
                 hasNextPage, hasPreviousPage, pageKeys, searchTerm, searchInput,
                 timeoutId, timers, inflight, sinceKey, burst, lastRespKey>>

\* handleSenderAdded: the reset, then the fetch of the render that made it.
handleSenderAdded(refetch) ==
  /\ pageIndex' = 0
  /\ pageKeys' = <<"">>
  /\ lastEvaluatedKey' = ""
  /\ hasNextPage' = FALSE
  /\ hasPreviousPage' = FALSE
  /\ UNCHANGED <<pageSize, searchTerm>>
  /\ Issue(<<refetch>>, TRUE)

\* handleSenderUpdated: only the fetch of the render that made it.
handleSenderUpdated(refetch) ==
  /\ UNCHANGED <<pageIndex, pageSize, pageKeys, searchTerm, lastEvaluatedKey,
                 hasNextPage, hasPreviousPage>>
  /\ Issue(<<refetch>>, FALSE)

\* The continuation of a mutation after its awaited request settles.
MutationResponse(m, ok) ==
  /\ BagIn(m, mutations)
  /\ m.kind # "getOne"
  /\ mutations' = mutations (-) SetToBag({m})
  /\ UNCHANGED <<mounted, table, data, error, searchInput, timeoutId, timers, sinceKey, burst, lastRespKey>>
  /\ IF ~ok
     THEN /\ lastOp' = "mutationFail"
          /\ UNCHANGED <<loading, pageIndex, pageSize, pageKeys, searchTerm,
                         lastEvaluatedKey, hasNextPage, hasPreviousPage, inflight>>
     ELSE CASE m.kind = "create" ->
                 /\ handleSenderAdded(m.refetch)
                 /\ lastOp' = "created"
            [] m.kind = "delete" ->
                 /\ handleSenderAdded(m.refetch)
                 /\ lastOp' = "deleted"
            [] m.kind = "update" ->
                 /\ handleSenderUpdated(m.refetch)
                 /\ lastOp' = "updated"
            [] m.kind = "toggle" ->
                 /\ handleSenderAdded(m.refetch)
                 /\ lastOp' = "archived"

\* -------------------------------------------------------------- calendar
\* The schedule lists schedulerApi.list can return, the campaign of a schedule,
\* and the related entities a campaign names.
Schedule(i) == [id |-> i, campaignId |-> i]

RECURSIVE ScheduleLists(_)
ScheduleLists(n) ==
  IF n = 0 THEN {<<>>}
  ELSE LET shorter == ScheduleLists(n - 1) IN
       shorter \cup {Append(s, Schedule(i)) : s \in shorter, i \in 1..MaxSchedules}

Distinct(s) == \A i, j \in DOMAIN s : i # j => s[i] # s[j]
Results == {s \in ScheduleLists(MaxSchedules) : Distinct(s)}

Kinds == {"audience", "sender", "template"}
\* campaign.audienceId / senderId / templateId: the ones that are set.
CampaignShapes == {Kinds, Kinds \ {"sender"}}

ListCall == [kind |-> "list", index |-> 0]
LookupCall(i) == [kind |-> "getOne", index |-> i]
Lookups(cs) == {c \in cs : c.kind = "getOne"}

\* Variant: every campaign lookup is issued at once.
forSchedule_AllAtOnce(done, results) ==
  IF done = 0 THEN {LookupCall(i) : i \in DOMAIN results} ELSE {}

\* `for (const schedule of schedules.results) { await campaignsApi.getOne(...) }`:
\* the lookups to issue once `done` iterations have completed.
forSchedule(done, results) ==
  IF done < Len(results) THEN {LookupCall(done + 1)} ELSE {}

\* Variant: a schedule whose campaign lookup fails is left out.
calendarEvent_DropFailed(schedule, ok, shape) ==
  IF ok THEN <<[schedule |-> schedule,
               campaign |-> <<[id |-> schedule.campaignId, has |-> shape]>>]>>
  ELSE <<>>

\* The event one iteration pushes; campaign is <<>> when the lookup failed.
calendarEvent(schedule, ok, shape) ==
  IF ok THEN <<[schedule |-> schedule,
               campaign |-> <<[id |-> schedule.campaignId, has |-> shape]>>]>>
  ELSE <<[schedule |-> schedule, campaign |-> <<>>]>>

\* The continuation of fetchScheduledCampaigns after `await schedulerApi.list`.
schedulesListed(ok, results) ==
  /\ ListCall \in calls
  /\ IF ~ok
     THEN /\ calendarLoading' = FALSE
          /\ calls' = calls \ {ListCall}
          /\ lastOp' = "calendarFail"
          /\ UNCHANGED <<events, schedules, calendarEvents, serverSchedules>>
     ELSE /\ schedules' = results
          /\ serverSchedules' = {results[i].id : i \in DOMAIN results}
          /\ calendarEvents' = <<>>
          /\ calls' = (calls \ {ListCall}) \cup forSchedule(0, results)
          /\ IF Lookups(calls') = {}
             THEN /\ events' = <<>>
                  /\ calendarLoading' = FALSE
                  /\ lastOp' = "calendarLoaded"
             ELSE /\ lastOp' = "scheduleList"
                  /\ UNCHANGED <<events, calendarLoading>>
  /\ UNCHANGED <<selectedEvent, isModalOpen, audience, sender, template, modalLoading,
                 related, deletes, lookupFailed, lastRun, sending, sends>>

\* The continuation after `await campaignsApi.getOne(schedule.campaignId)`.
campaignLooked(call, ok, shape) ==
  /\ call \in Lookups(calls)
  /\ calendarEvents' = calendarEvents \o calendarEvent(schedules[call.index], ok, shape)
  /\ lookupFailed' = IF ok THEN lookupFailed ELSE lookupFailed \cup {call.index}
  /\ calls' = (calls \ {call}) \cup forSchedule(call.index, schedules)
  /\ IF Lookups(calls') = {}
     THEN /\ events' = calendarEvents'
          /\ calendarLoading' = FALSE
          /\ lastOp' = "calendarLoaded"
     ELSE /\ lastOp' = IF ok THEN "lookupOk" ELSE "lookupFail"
          /\ UNCHANGED <<events, calendarLoading>>
  /\ UNCHANGED <<selectedEvent, isModalOpen, audience, sender, template, modalLoading,
                 schedules, related, deletes, serverSchedules, lastRun, sending, sends>>

\* ----------------------------------------------------- schedule event modal
Null == <<>>
Entity(kind, campaignId) == <<[kind |-> kind, of |-> campaignId]>>
Fulfilled(value) == [state |-> "fulfilled", value |-> value]
Rejected == [state |-> "rejected", value |-> Null]

\* Variant: a failed lookup rejects.
getOneCatch_Rethrow(kind, ok, campaignId) ==
  IF ok THEN Fulfilled(Entity(kind, campaignId)) ELSE Rejected

\* `xApi.getOne(id).catch(() => null)`
getOneCatch(kind, ok, campaignId) ==
  IF ok THEN Fulfilled(Entity(kind, campaignId)) ELSE Fulfilled(Null)

\* One call of fetchRelatedData: the lookups still pending and the values of
\* the settled ones.
Run(of) ==
  [campaign |-> of.id, has |-> of.has, pending |-> of.has,
   got |-> [k \in Kinds |-> Null], failed |-> {}]

\* handleEventClick, then the effect on [event, isOpen].
handleEventClick(i) ==
  /\ ~calendarLoading
  /\ ~isModalOpen
  /\ i \in DOMAIN events
  /\ selectedEvent' = <<events[i]>>
  /\ isModalOpen' = TRUE
  /\ IF events[i].campaign # <<>>
     THEN /\ BagCardinality(related) < MaxRuns
          /\ modalLoading' = TRUE
          /\ related' = related (+) SetToBag({Run(events[i].campaign[1])})
     ELSE UNCHANGED <<modalLoading, related>>
  /\ lastOp' = "eventClick"
  /\ UNCHANGED <<events, calendarLoading, audience, sender, template, schedules,
                 calendarEvents, calls, deletes, serverSchedules, lookupFailed, lastRun,
                 sending, sends>>

onClose ==
  /\ isModalOpen' = FALSE
  /\ selectedEvent' = <<>>

closeModal ==
  /\ isModalOpen
  /\ onClose
  /\ lastOp' = "close"
  /\ UNCHANGED <<events, calendarLoading, audience, sender, template, modalLoading,
                 schedules, calendarEvents, calls, related, deletes, serverSchedules,
                 lookupFailed, lastRun, sending, sends>>

\* One of the three lookups of a run settles; the last one resolves Promise.all.
relatedLooked(run, kind, ok) ==
  /\ BagIn(run, related)
  /\ kind \in run.pending
  /\ LET result == getOneCatch(kind, ok, run.campaign)
         after == [run EXCEPT !.pending = @ \ {kind},
                              !.got[kind] = result.value,
                              !.failed = IF ok THEN @ ELSE @ \cup {kind}]
     IN  IF result.state = "rejected"
         THEN /\ related' = related (-) SetToBag({run})
              /\ modalLoading' = FALSE
              /\ lastRun' = <<after>>
              /\ lastOp' = "relatedError"
              /\ UNCHANGED <<audience, sender, template>>
         ELSE IF after.pending = {}
         THEN /\ related' = related (-) SetToBag({run})
              /\ audience' = after.got["audience"]
              /\ sender' = after.got["sender"]
              /\ template' = after.got["template"]
              /\ modalLoading' = FALSE
              /\ lastRun' = <<after>>
              /\ lastOp' = "relatedLoaded"
         ELSE /\ related' = (related (-) SetToBag({run})) (+) SetToBag({after})
              /\ lastOp' = "relatedLookup"
              /\ UNCHANGED <<audience, sender, template, modalLoading, lastRun>>
  /\ UNCHANGED <<events, calendarLoading, selectedEvent, isModalOpen, schedules,
                 calendarEvents, calls, deletes, serverSchedules, lookupFailed,
                 sending, sends>>

\* handleDeleteSchedule up to `await schedulerApi.delete(event.schedule.id)`.
handleDeleteSchedule(accepted) ==
  /\ isModalOpen
  /\ selectedEvent # <<>>
  /\ IF accepted
     THEN /\ BagCardinality(deletes) < MaxMutations
          /\ deletes' = deletes (+) SetToBag({[id |-> selectedEvent[1].schedule.id]})
          /\ lastOp' = "scheduleDelete"
     ELSE /\ lastOp' = "scheduleKept"
          /\ UNCHANGED deletes
  /\ UNCHANGED <<events, calendarLoading, selectedEvent, isModalOpen, audience, sender,
                 template, modalLoading, schedules, calendarEvents, calls, related,
                 serverSchedules, lookupFailed, lastRun, sending, sends>>

\* The continuation of handleDeleteSchedule.
scheduleDeleted(d, ok) ==
  /\ BagIn(d, deletes)
  /\ deletes' = deletes (-) SetToBag({d})
  /\ IF ok
     THEN /\ serverSchedules' = serverSchedules \ {d.id}
          /\ onClose
          /\ lastOp' = "scheduleDeleted"
     ELSE /\ lastOp' = "scheduleDeleteFail"
          /\ UNCHANGED <<serverSchedules, selectedEvent, isModalOpen>>
  /\ UNCHANGED <<events, calendarLoading, audience, sender, template, modalLoading,
                 schedules, calendarEvents, calls, related, lookupFailed, lastRun,
                 sending, sends>>

\* ------------------------------------------------------------- edit modal
validateEmail(email) == email = "v"

\* Variant: the alias list is not checked.
validateForm_NoAlias(t, values) ==
  IF t = "senders"
  THEN {f \in {"email"} : trim(values[f]) = "" \/ ~validateEmail(values[f])}
         \cup {f \in {"emailType"} : values[f] = ""}
  ELSE {}

\* validateForm: the fields of newErrors.  EditCampaignModal (and
\* EditTemplateModal) check nothing.
validateForm(t, values) ==
  IF t = "senders"
  THEN {f \in {"email"} : trim(values[f]) = "" \/ ~validateEmail(values[f])}
         \cup {f \in {"alias", "emailType"} : values[f] = ""}
  ELSE {}

\* Variant: every field is sent.
requestData_AllFields(t, values) ==
  [f \in FormFields(t) \cup {"user"} |->
     IF f = "user" THEN "Bruno"
     ELSE IF f \in TextFields THEN trim(values[f]) ELSE values[f]]

\* The body of the update request: EditSenderModal sends every field,
\* EditCampaignModal only those that have a value.
requestData(t, values) ==
  LET sent(f) == IF f \in TextFields THEN trim(values[f]) ELSE values[f]
      included == IF t = "senders" THEN FormFields(t)
                  ELSE {f \in FormFields(t) : sent(f) # ""}
  IN  [f \in included \cup {"user"} |-> IF f = "user" THEN "Bruno" ELSE sent(f)]

\* handleEdit and the load effect on [isOpen, senderId].
handleEdit(id) ==
  /\ Rendered
  /\ data # <<>>
  /\ ~isEditModalOpen
  /\ BagCardinality(loads) < MaxLoads
  /\ selectedSenderId' = id
  /\ isEditModalOpen' = TRUE
  /\ isLoading' = TRUE
  /\ loads' = loads (+) SetToBag({[id |-> id, live |-> TRUE]})
  /\ lastOp' = "edit"
  /\ UNCHANGED <<formData, errors, isSubmitting>>
  /\ UNCHANGED tableVars

\* onCloseAction, then the reset effect on [isOpen]; EditCampaignModal's also
\* resets the two flags.
onCloseAction ==
  /\ isEditModalOpen' = FALSE
  /\ selectedSenderId' = 0
  /\ IF isEditModalOpen
     THEN /\ formData' = BlankForm(table)
          /\ errors' = {}
     ELSE UNCHANGED <<formData, errors>>

closeEdit ==
  /\ Rendered
  /\ isEditModalOpen
  /\ onCloseAction
  /\ isSubmitting' = IF table = "campaigns" THEN FALSE ELSE isSubmitting
  /\ isLoading' = IF table = "campaigns" THEN FALSE ELSE isLoading
  /\ lastOp' = "closeEdit"
  /\ UNCHANGED loads
  /\ UNCHANGED tableVars

\* The continuation of fetchSenderData after `await sendersApi.getOne(id)`.  A
\* request that is not live belongs to a modal instance since unmounted: its
\* setState calls are ignored, the parent's onCloseAction is not.
senderLoaded(req, ok, full) ==
  /\ BagIn(req, loads)
  /\ loads' = loads (-) SetToBag({req})
  /\ IF ok
     THEN /\ formData' = IF req.live THEN LoadedForm(table, req.id, full) ELSE formData
          /\ isLoading' = IF req.live THEN FALSE ELSE isLoading
          /\ lastOp' = "loaded"
          /\ UNCHANGED <<isEditModalOpen, selectedSenderId, errors, isSubmitting>>
     ELSE /\ onCloseAction
          /\ isLoading' = IF req.live THEN FALSE ELSE isLoading
          /\ isSubmitting' = IF table = "campaigns" /\ isEditModalOpen THEN FALSE
                             ELSE isSubmitting
          /\ lastOp' = "loadFail"
  /\ UNCHANGED tableVars

\* The onChange of a form field.
handleInputChange(field, value) ==
  /\ Rendered
  /\ isEditModalOpen
  /\ ~isLoading
  /\ formData.values[field] # value
  /\ formData' = [formData EXCEPT !.values[field] = value]
  /\ errors' = errors \ {field}
  /\ lastOp' = "input"
  /\ UNCHANGED <<isEditModalOpen, selectedSenderId, isSubmitting, isLoading, loads>>
  /\ UNCHANGED tableVars

\* handleSubmit of the edit modal up to the awaited update request.
handleSubmit ==
  /\ Rendered
  /\ isEditModalOpen
  /\ ~isLoading
  /\ ~isSubmitting
  /\ (table = "senders" => errors' = validateForm(table, formData.values))
  /\ (table # "senders" => errors' = {})
  /\ IF validateForm(table, formData.values) # {} \/ selectedSenderId = 0
     THEN /\ lastOp' = "submitRejected"
          /\ UNCHANGED <<isSubmitting, mutations>>
     ELSE /\ BagCardinality(mutations) < MaxMutations
          /\ isSubmitting' = TRUE
          /\ mutations' = mutations (+) SetToBag({
                [kind |-> "update", refetch |-> handleSenderUpdatedFetch(CurrentClosure),
                 confirmed |-> FALSE, id |-> selectedSenderId,
                 payload |-> requestData(table, formData.values),
                 form |-> formData]})
          /\ lastOp' = "submitUpdate"
  /\ UNCHANGED <<isEditModalOpen, selectedSenderId, formData, isLoading, loads>>
  /\ UNCHANGED <<mounted, table, data, loading, error, pageIndex, pageSize,
                 lastEvaluatedKey, hasNextPage, hasPreviousPage, pageKeys, searchTerm,
                 searchInput, timeoutId, timers, inflight, sinceKey, burst, lastRespKey>>

Stale(req) == [req EXCEPT !.live = FALSE]

\* The continuation of handleSubmit.  On success the parent refetches, which
\* replaces the table and the modal in it by the loading placeholder: the
\* modal is unmounted and its next instance starts from the initial state.
senderUpdated(m, ok) ==
  /\ "payload" \in DOMAIN m
  /\ MutationResponse(m, ok)
  /\ IF ok
     THEN /\ isEditModalOpen' = FALSE
          /\ selectedSenderId' = 0
          /\ formData' = BlankForm(table)
          /\ errors' = {}
          /\ isSubmitting' = FALSE
          /\ isLoading' = FALSE
          /\ loads' = BagOfAll(Stale, loads)
     ELSE /\ isSubmitting' = FALSE
          /\ UNCHANGED <<isEditModalOpen, selectedSenderId, formData, errors, isLoading,
                         loads>>

\* ------------------------------------------------------------- month view
\* Variant: the trailing days of the previous month are one day late.
getMonthDays_Late(cur) ==
  LET y == getFullYear(cur)
      m == getMonth(cur)
      start == MakeDate(y, m, 1)
      end == MakeDate(y, m + 1, 0)
      startDay == getDay(start)
      daysInMonth == getDate(end)
      trailing == [k \in 1..startDay |-> setDate(start, getDate(start) - (startDay - k))]
      month == [i \in 1..daysInMonth |-> MakeDate(y, m, i)]
      remaining == GridCells - Len(trailing \o month)
      leading == [i \in 1..remaining |-> MakeDate(y, m + 1, i)]
  IN  trailing \o month \o leading

\* getMonthDays: the k-th trailing day is pushed by the iteration i = startDay - k.
getMonthDays(cur) ==
  LET y == getFullYear(cur)
      m == getMonth(cur)
      start == MakeDate(y, m, 1)
      end == MakeDate(y, m + 1, 0)
      startDay == getDay(start)
      daysInMonth == getDate(end)
      trailing == [k \in 1..startDay |-> setDate(start, getDate(start) - (startDay - k) - 1)]
      month == [i \in 1..daysInMonth |-> MakeDate(y, m, i)]
      remaining == GridCells - Len(trailing \o month)
      leading == [i \in 1..remaining |-> MakeDate(y, m + 1, i)]
  IN  trailing \o month \o leading

navigateDate(direction) ==
  LET newDate == setMonth(currentDate, getMonth(currentDate) + (IF direction = "next" THEN 1 ELSE -1))
  IN  /\ newDate \in Days
      /\ currentDate' = newDate
      /\ lastOp' = IF direction = "next" THEN "monthNext" ELSE "monthPrev"

goToToday(today) ==
  /\ currentDate' = today
  /\ lastOp' = "today"

\* -------------------------------------------------------------- send page
\* loadCampaigns after its await: the options of the dropdown.
campaignsListed(ok) ==
  /\ loadingCampaigns
  /\ campaigns' = IF ok THEN 1..NumRecords ELSE {}
  /\ loadingCampaigns' = FALSE
  /\ lastOp' = "campaignsListed"
  /\ UNCHANGED <<selectedCampaignId, campaign, sendTemplate, sendLoading, dataLoads,
                 lastSend>>
  /\ UNCHANGED calVars

\* handleCampaignSelect, and the load effect its re-render runs: the effect
\* neither clears campaign nor cancels the loadData of the previous selection.
handleCampaignSelect(campaignId) ==
  /\ ~loadingCampaigns
  /\ campaignId \in campaigns
  /\ campaignId # selectedCampaignId
  /\ BagCardinality(dataLoads) < MaxLoads
  /\ selectedCampaignId' = campaignId
  /\ sendLoading' = TRUE
  /\ dataLoads' = dataLoads (+) SetToBag({loadData(campaignId)})
  /\ lastOp' = "campaignSelect"
  /\ UNCHANGED <<campaigns, loadingCampaigns, campaign, sendTemplate, lastSend>>
  /\ UNCHANGED calVars

\* loadData after `await campaignsApi.getOne(selectedCampaignId)`, for the id
\* the call closed over.
campaignLoaded(req, ok, templateId) ==
  /\ BagIn(req, dataLoads)
  /\ req.phase = "campaign"
  /\ IF ok
     THEN /\ campaign' = <<req.id>>
          /\ IF templateId
             THEN /\ dataLoads' = (dataLoads (-) SetToBag({req}))
                                    (+) SetToBag({[req EXCEPT !.phase = "template"]})
                  /\ UNCHANGED sendLoading
             ELSE /\ dataLoads' = dataLoads (-) SetToBag({req})
                  /\ sendLoading' = FALSE
     ELSE /\ dataLoads' = dataLoads (-) SetToBag({req})
          /\ sendLoading' = FALSE
          /\ UNCHANGED campaign
  /\ lastOp' = "campaignLoaded"
  /\ UNCHANGED <<campaigns, loadingCampaigns, selectedCampaignId, sendTemplate, lastSend>>
  /\ UNCHANGED calVars

\* loadData after `await templatesApi.getOne(campaignData.templateId)`.
templateLoaded(req, ok) ==
  /\ BagIn(req, dataLoads)
  /\ req.phase = "template"
  /\ sendTemplate' = IF ok THEN <<req.id>> ELSE sendTemplate
  /\ sendLoading' = FALSE
  /\ dataLoads' = dataLoads (-) SetToBag({req})
  /\ lastOp' = "templateLoaded"
  /\ UNCHANGED <<campaigns, loadingCampaigns, selectedCampaignId, campaign, lastSend>>
  /\ UNCHANGED calVars

\* handleSendEmail up to `await campaignsApi.sendEmail(sendRequest)`; an empty
\* or malformed receiver list ends it with a toast and no request.
handleSendEmail(valid) ==
  /\ ~sending
  /\ campaign # <<>>
  /\ IF valid
     THEN /\ sending' = TRUE
          /\ sends' = sends + 1
          /\ lastSend' = <<[emailId |-> campaign[1], selected |-> selectedCampaignId]>>
          /\ lastOp' = "send"
     ELSE /\ lastOp' = "sendInvalid"
          /\ UNCHANGED <<sending, sends, lastSend>>
  /\ UNCHANGED <<campaigns, loadingCampaigns, selectedCampaignId, campaign, sendTemplate,
                 sendLoading, dataLoads>>
  /\ UNCHANGED <<events, calendarLoading, selectedEvent, isModalOpen, audience, sender,
                 template, modalLoading, schedules, calendarEvents, calls, related,
                 deletes, serverSchedules, lookupFailed, lastRun>>

\* Variant: a failed send is sent again.
sendEmailDone_Retry(ok) ==
  /\ sends > 0
  /\ IF ok
     THEN /\ sends' = sends - 1
          /\ sending' = FALSE
          /\ lastOp' = "sent"
     ELSE /\ lastOp' = "sendFail"
          /\ UNCHANGED <<sending, sends>>
  /\ UNCHANGED selVars
  /\ UNCHANGED <<events, calendarLoading, selectedEvent, isModalOpen, audience, sender,
                 template, modalLoading, schedules, calendarEvents, calls, related,
                 deletes, serverSchedules, lookupFailed, lastRun>>

\* The continuation of handleSendEmail.
sendEmailDone(ok) ==
  /\ sends > 0
  /\ sends' = sends - 1
  /\ sending' = FALSE
  /\ lastOp' = IF ok THEN "sent" ELSE "sendFail"
  /\ UNCHANGED selVars
  /\ UNCHANGED <<events, calendarLoading, selectedEvent, isModalOpen, audience, sender,
                 template, modalLoading, schedules, calendarEvents, calls, related,
                 deletes, serverSchedules, lookupFailed, lastRun>>

\* ------------------------------------------------------------------ pages
\* The routes of the dashboard, and those whose page function awaits
\* validate_user before it renders.
Pages == {"campaigns", "audience-types", "schedule", "send", "templates/add"}
Validated == {"campaigns", "audience-types", "schedule"}

\* validate_user: the session, or a redirect to the login route.
validate_user(to) ==
  IF session THEN [route |-> to, session |-> TRUE]
  ELSE [route |-> "/auth/login", session |-> FALSE]

\* A request for a page: the page function runs and returns its tree.
visit(page) ==
  LET checked == IF page \in Validated THEN validate_user(page)
                 ELSE [route |-> page, session |-> TRUE]
  IN  /\ route' = checked.route
      /\ content' = IF checked.route = page /\ (page \in Validated => checked.session)
                    THEN page ELSE ""
      /\ lastOp' = "visit"
      /\ UNCHANGED session

\* ------------------------------------------------------------------ Spec
\* The list requests sent by a step.
Issued == inflight' (-) inflight

Quiet == UNCHANGED <<clicks, log, minted>> /\ UNCHANGED pageVars /\ UNCHANGED gateVars
\* A step of the user, and a step of the server or of a timer.
User ==
  /\ Quiet
  /\ budget # 0
  /\ budget' = IF budget > 0 THEN budget - 1 ELSE budget
  /\ UNCHANGED calVars
  /\ UNCHANGED selVars
Env == Quiet /\ UNCHANGED budget /\ UNCHANGED calVars /\ UNCHANGED selVars
\* The same two kinds of step on the calendar page.
CalendarUser ==
  /\ Quiet
  /\ budget # 0
  /\ budget' = IF budget > 0 THEN budget - 1 ELSE budget
  /\ UNCHANGED tableVars
  /\ UNCHANGED selVars
CalendarEnv == Quiet /\ UNCHANGED budget /\ UNCHANGED tableVars /\ UNCHANGED selVars
\* The same two kinds of step on the send page.
SendUser ==
  /\ Quiet
  /\ budget # 0
  /\ budget' = IF budget > 0 THEN budget - 1 ELSE budget
  /\ UNCHANGED tableVars
SendEnv == Quiet /\ UNCHANGED budget /\ UNCHANGED tableVars

\* A step of the user on one of the other pages.
PageUser ==
  /\ UNCHANGED <<clicks, log, minted>>
  /\ budget # 0
  /\ budget' = IF budget > 0 THEN budget - 1 ELSE budget
  /\ UNCHANGED tableVars
  /\ UNCHANGED calVars
  /\ UNCHANGED editVars
  /\ UNCHANGED selVars
  /\ UNCHANGED gateVars

\* The mounted SendersTable, the mounted CampaignsTable, and a SendersTable
\* whose user stops after MaxActs actions.
\* The other pages as they are when first opened on the first day modelled.
InitPages == currentDate = MakeDate(FirstYear, 0, 1) /\ selectedCampaignId = 0 /\ session
InitSenders == Init /\ InitPages /\ table = "senders" /\ budget = -1
InitCampaigns == Init /\ InitPages /\ table = "campaigns" /\ budget = -1
InitSession == Init /\ InitPages /\ table = "senders" /\ budget = MaxActs

\* SendersTable: navigation, page size and the three mutations.
Next ==
  \/ ClickNext /\ User
  \/ ClickPrevious /\ User
  \/ \E value \in PageSizes : SelectPageSize(value) /\ User
  \/ \E req \in BagToSet(inflight), key \in Cursors \cup {""} : ListResponse(req, TRUE, key) /\ Env
  \/ \E req \in BagToSet(inflight) : ListResponse(req, FALSE, "") /\ Env
  \/ SubmitCreate /\ User
  \/ SubmitUpdate /\ User
  \/ handleDelete(TRUE) /\ User
  \/ \E m \in BagToSet(mutations), ok \in BOOLEAN : MutationResponse(m, ok) /\ Env

Spec == InitSenders /\ [][Next]_vars

\* The same operations in CampaignsTable.
SpecCampaigns == InitCampaigns /\ [][Next]_vars

\* Sessions of at most MaxActs user actions.
SpecSession == InitSession /\ [][Next]_vars

\* SendersTable: navigation, page size and the debounced search.
NextSearch ==
  \/ ClickNext /\ User
  \/ ClickPrevious /\ User
  \/ \E value \in PageSizes : SelectPageSize(value) /\ User
  \/ \E req \in BagToSet(inflight), key \in Cursors \cup {""} : ListResponse(req, TRUE, key) /\ Env
  \/ \E req \in BagToSet(inflight) : ListResponse(req, FALSE, "") /\ Env
  \/ \E value \in SearchValues : TypeSearch(value) /\ User
  \/ Tick /\ Env
  \/ \E t \in timers : TimerFires(t) /\ Env

SpecSearch == InitSenders /\ [][NextSearch]_vars

SpecSearchSession == InitSession /\ [][NextSearch]_vars

\* ------------------------------------------------- the three-page example
\* The server of the example: cursor c1 after page 0, c2 after page 1, none
\* after page 2.
ExampleServer(lastKey) ==
  CASE lastKey = "" -> AllCursors[1]
    [] lastKey = AllCursors[1] -> AllCursors[2]
    [] OTHER -> ""

Record(click) ==
  /\ Len(clicks) < MaxClicks
  /\ clicks' = Append(clicks, click)
  /\ log' = IF Issued = EmptyBag THEN log
            ELSE Append(log, (CHOOSE r \in BagToSet(Issued) : TRUE).lastKey)
  /\ UNCHANGED <<budget, minted>>
  /\ UNCHANGED calVars
  /\ UNCHANGED pageVars
  /\ UNCHANGED selVars
  /\ UNCHANGED gateVars

NextExample ==
  \/ Rendered /\ hasNextPage /\ handleNextPage /\ Record("next")
  \/ ClickPrevious /\ Record("previous")
  \/ \E value \in PageSizes : SelectPageSize(value) /\ Record("pageSize")
  \/ \E req \in BagToSet(inflight) : ListResponse(req, TRUE, ExampleServer(req.lastKey)) /\ Env

SpecExample == InitSenders /\ [][NextExample]_vars

\* ---------------------------------------------------- search and teardown
\* The debounced search in a table that can be unmounted at any moment.
NextUnmount ==
  \/ \E req \in BagToSet(inflight), key \in Cursors \cup {""} :
       mounted /\ ListResponse(req, TRUE, key) /\ Env
  \/ \E req \in BagToSet(inflight) : mounted /\ ListResponse(req, FALSE, "") /\ Env
  \/ \E value \in SearchValues : TypeSearch(value) /\ User
  \/ Tick /\ Env
  \/ \E t \in timers : mounted /\ TimerFires(t) /\ Env
  \/ Unmount /\ User
  \/ \E t \in timers : LateTimerFires(t) /\ Env
  \/ \E req \in BagToSet(inflight) : LateListResponse(req) /\ Env

SpecUnmount == InitSenders /\ [][NextUnmount]_vars

\* ------------------------------------------- delete and the archive toggle
\* The senders table whose rows can be deleted and archived.
NextArchive ==
  \/ ClickNext /\ User
  \/ ClickPrevious /\ User
  \/ \E req \in BagToSet(inflight), key \in Cursors \cup {""} : ListResponse(req, TRUE, key) /\ Env
  \/ \E req \in BagToSet(inflight) : ListResponse(req, FALSE, "") /\ Env
  \/ \E accepted \in BOOLEAN : handleDelete(accepted) /\ User
  \/ handleArchive /\ User
  \/ \E m \in BagToSet(mutations), ok \in BOOLEAN : ArchiveLoaded(m, ok) /\ Env
  \/ \E m \in BagToSet(mutations), ok \in BOOLEAN : MutationResponse(m, ok) /\ Env

SpecArchive == InitSenders /\ [][NextArchive]_vars

\* ------------------------------------------------------ handlers, called
\* handleNextPage called in any state, also where its button is disabled, next
\* to Previous clicks and list responses; calls and requests go on record.
NextCalls ==
  \/ handleNextPage /\ Record("next")
  \/ ClickPrevious /\ Record("previous")
  \/ \E req \in BagToSet(inflight), key \in Cursors \cup {""} : ListResponse(req, TRUE, key) /\ Env
  \/ \E req \in BagToSet(inflight) : ListResponse(req, FALSE, "") /\ Env

SpecCalls == InitSenders /\ [][NextCalls]_vars

\* ------------------------------------------- calendar and schedule modal
\* The Calendar from its mount on: the load, the event modal with its related
\* lookups, and the schedule delete.
NextCalendar ==
  \/ \E results \in Results : schedulesListed(TRUE, results) /\ CalendarEnv
  \/ schedulesListed(FALSE, <<>>) /\ CalendarEnv
  \/ \E call \in calls, shape \in CampaignShapes : campaignLooked(call, TRUE, shape) /\ CalendarEnv
  \/ \E call \in calls : campaignLooked(call, FALSE, {}) /\ CalendarEnv
  \/ \E i \in DOMAIN events : handleEventClick(i) /\ CalendarUser
  \/ closeModal /\ CalendarUser
  \/ \E run \in BagToSet(related), kind \in Kinds, ok \in BOOLEAN :
       relatedLooked(run, kind, ok) /\ CalendarEnv
  \/ \E accepted \in BOOLEAN : handleDeleteSchedule(accepted) /\ CalendarUser
  \/ \E d \in BagToSet(deletes), ok \in BOOLEAN : scheduleDeleted(d, ok) /\ CalendarEnv

SpecCalendar == InitSenders /\ [][NextCalendar]_vars

\* The calendar load, and the events opened and closed once it has ended.
NextCalendarLoad ==
  \/ \E results \in Results : schedulesListed(TRUE, results) /\ CalendarEnv
  \/ schedulesListed(FALSE, <<>>) /\ CalendarEnv
  \/ \E call \in calls, shape \in CampaignShapes : campaignLooked(call, TRUE, shape) /\ CalendarEnv
  \/ \E call \in calls : campaignLooked(call, FALSE, {}) /\ CalendarEnv
  \/ \E i \in DOMAIN events : handleEventClick(i) /\ CalendarUser
  \/ closeModal /\ CalendarUser

SpecCalendarLoad == InitSenders /\ [][NextCalendarLoad]_vars

\* The schedule modal of a user who stops two actions earlier than the
\* table's user does.
InitModal == Init /\ InitPages /\ table = "senders" /\ budget = MaxActs - 2

NextModal ==
  \/ NextCalendarLoad
  \/ \E run \in BagToSet(related), kind \in Kinds, ok \in BOOLEAN :
       relatedLooked(run, kind, ok) /\ CalendarEnv

SpecModal == InitModal /\ [][NextModal]_vars

\* ------------------------------------------------------------- edit modal
\* A step of the user and of the server on the edit modal.
EditUser ==
  /\ UNCHANGED <<clicks, log, minted>>
  /\ budget # 0
  /\ budget' = IF budget > 0 THEN budget - 1 ELSE budget
  /\ UNCHANGED calVars
  /\ UNCHANGED dateVars
  /\ UNCHANGED selVars
  /\ UNCHANGED gateVars
EditEnv ==
  /\ UNCHANGED <<clicks, log, budget, minted>>
  /\ UNCHANGED calVars
  /\ UNCHANGED dateVars
  /\ UNCHANGED selVars
  /\ UNCHANGED gateVars

\* The edit modal of a rendered table, either table, for a user who stops
\* after MaxActs actions.
NextEdit ==
  \/ \E req \in BagToSet(inflight) : ListResponse(req, TRUE, "") /\ Env
  \/ \E id \in 1..NumRecords : handleEdit(id) /\ EditUser
  \/ closeEdit /\ EditUser
  \/ \E req \in BagToSet(loads), ok \in BOOLEAN, full \in BOOLEAN :
       senderLoaded(req, ok, full) /\ EditEnv
  \/ \E field \in FormFields(table) : \E value \in FieldValues(field) :
       handleInputChange(field, value) /\ EditUser
  \/ handleSubmit /\ EditUser
  \/ \E m \in BagToSet(mutations), ok \in BOOLEAN : senderUpdated(m, ok) /\ EditEnv

InitEdit == Init /\ InitPages /\ budget = MaxActs
SpecEdit == InitEdit /\ [][NextEdit]_vars

\* The forms that validate: the edit modal and the send page.
NextForms ==
  \/ NextEdit
  \/ \E req \in BagToSet(dataLoads), ok \in BOOLEAN : campaignLoaded(req, ok, FALSE) /\ SendEnv
  \/ \E valid \in BOOLEAN : handleSendEmail(valid) /\ SendUser
  \/ \E ok \in BOOLEAN : sendEmailDone(ok) /\ SendEnv

\* The send page is the one a campaign's row opens, with ?id= in the URL.
InitForms ==
  /\ Init
  /\ currentDate = MakeDate(FirstYear, 0, 1)
  /\ session
  /\ selectedCampaignId = 1
  /\ budget = MaxActs
SpecForms == InitForms /\ [][NextForms]_vars

\* ------------------------------------------------------------- month view
\* The calendar's month navigation, opened on any day.
NextMonth ==
  \/ \E direction \in {"next", "prev"} : navigateDate(direction) /\ PageUser
  \/ \E today \in Days : goToToday(today) /\ PageUser

InitMonth == Init /\ table = "senders" /\ budget = -1 /\ selectedCampaignId = 0 /\ session
SpecMonth == InitMonth /\ [][NextMonth]_vars

\* ------------------------------------------------------------ error state
\* SendersTable with every user action, response and timer, and its
\* unmount, for a user who stops after MaxActs - 1 actions.
NextError ==
  \/ ClickNext /\ User
  \/ ClickPrevious /\ User
  \/ \E value \in PageSizes : SelectPageSize(value) /\ User
  \/ \E req \in BagToSet(inflight), key \in Cursors \cup {""} :
       mounted /\ ListResponse(req, TRUE, key) /\ Env
  \/ \E req \in BagToSet(inflight) : mounted /\ ListResponse(req, FALSE, "") /\ Env
  \/ \E value \in SearchValues : TypeSearch(value) /\ User
  \/ Tick /\ Env
  \/ \E t \in timers : mounted /\ TimerFires(t) /\ Env
  \/ SubmitCreate /\ User
  \/ SubmitUpdate /\ User
  \/ handleDelete(TRUE) /\ User
  \/ \E m \in BagToSet(mutations), ok \in BOOLEAN : mounted /\ MutationResponse(m, ok) /\ Env
  \/ Unmount /\ User

InitError ==
  /\ Init
  /\ InitPages
  /\ table = "senders"
  /\ budget = MaxActs - 1
SpecError == InitError /\ [][NextError]_vars

\* ---------------------------------------------------------------- cursors
\* A server step that answers a list request, recording the cursor returned
\* with the limit and search the request carried.
Mint(req, key) ==
  /\ minted' = IF key = "" THEN minted
               ELSE minted \cup {[lastKey |-> key, limit |-> req.limit, search |-> req.search]}
  /\ UNCHANGED <<clicks, log, budget>>
  /\ UNCHANGED calVars
  /\ UNCHANGED pageVars
  /\ UNCHANGED selVars
  /\ UNCHANGED gateVars

\* SendersTable: navigation, page size, the debounced search and the
\* refresh after a delete, for a user who stops after MaxActs actions.
NextCursors ==
  \/ ClickNext /\ User
  \/ ClickPrevious /\ User
  \/ \E value \in PageSizes : SelectPageSize(value) /\ User
  \/ \E req \in BagToSet(inflight), key \in Cursors \cup {""} :
       ListResponse(req, TRUE, key) /\ Mint(req, key)
  \/ \E req \in BagToSet(inflight) : ListResponse(req, FALSE, "") /\ Env
  \/ \E value \in SearchValues : TypeSearch(value) /\ User
  \/ Tick /\ Env
  \/ \E t \in timers : TimerFires(t) /\ Env
  \/ handleDelete(TRUE) /\ User
  \/ \E m \in BagToSet(mutations), ok \in BOOLEAN : MutationResponse(m, ok) /\ Env

SpecCursors == InitSession /\ [][NextCursors]_vars

\* -------------------------------------------------------------- send page
\* SendPageContent opened with or without ?id=, for a user who stops after
\* MaxActs actions.
NextSend ==
  \/ \E ok \in BOOLEAN : campaignsListed(ok) /\ SendEnv
  \/ \E campaignId \in 1..NumRecords : handleCampaignSelect(campaignId) /\ SendUser
  \/ \E req \in BagToSet(dataLoads), ok \in BOOLEAN, templateId \in BOOLEAN :
       campaignLoaded(req, ok, templateId) /\ SendEnv
  \/ \E req \in BagToSet(dataLoads), ok \in BOOLEAN : templateLoaded(req, ok) /\ SendEnv
  \/ \E valid \in BOOLEAN : handleSendEmail(valid) /\ SendUser
  \/ \E ok \in BOOLEAN : sendEmailDone(ok) /\ SendEnv

InitSend ==
  /\ Init
  /\ currentDate = MakeDate(FirstYear, 0, 1)
  /\ session
  /\ table = "senders"
  /\ budget = MaxActs
SpecSend == InitSend /\ [][NextSend]_vars

\* ------------------------------------------------------------------ pages
\* A browser with or without a session requesting the pages, and turning
\* the months of the calendar while the schedule page is rendered.
Gate ==
  /\ UNCHANGED <<clicks, log, budget, minted>>
  /\ UNCHANGED tableVars
  /\ UNCHANGED calVars
  /\ UNCHANGED pageVars
  /\ UNCHANGED selVars

NextPages ==
  \/ \E page \in Pages : visit(page) /\ Gate
  \/ \E direction \in {"next", "prev"} :
       content = "schedule" /\ navigateDate(direction) /\ PageUser

InitGate ==
  /\ Init
  /\ currentDate = MakeDate(FirstYear, 0, 1)
  /\ selectedCampaignId = 0
  /\ table = "senders"
  /\ budget = -1
SpecPages == InitGate /\ [][NextPages]_vars

\* ------------------------------------------------------------ all requests
\* One request of each kind and its outcome: the table's list fetch and
\* delete, the calendar load, and the send page's send, for a user who stops
\* after MaxActs - 1 actions.
NextRequests ==
  \/ \E req \in BagToSet(inflight), key \in Cursors \cup {""} : ListResponse(req, TRUE, key) /\ Env
  \/ \E req \in BagToSet(inflight) : ListResponse(req, FALSE, "") /\ Env
  \/ handleDelete(TRUE) /\ User
  \/ \E m \in BagToSet(mutations), ok \in BOOLEAN : MutationResponse(m, ok) /\ Env
  \/ \E results \in Results : schedulesListed(TRUE, results) /\ CalendarEnv
  \/ schedulesListed(FALSE, <<>>) /\ CalendarEnv
  \/ \E call \in calls, shape \in CampaignShapes : campaignLooked(call, TRUE, shape) /\ CalendarEnv
  \/ \E call \in calls : campaignLooked(call, FALSE, {}) /\ CalendarEnv
  \/ \E req \in BagToSet(dataLoads), ok \in BOOLEAN : campaignLoaded(req, ok, FALSE) /\ SendEnv
  \/ \E valid \in BOOLEAN : handleSendEmail(valid) /\ SendUser
  \/ \E ok \in BOOLEAN : sendEmailDone(ok) /\ SendEnv

\* The send page is the one a campaign's row opens, with ?id= in the URL.
InitRequests ==
  /\ Init
  /\ currentDate = MakeDate(FirstYear, 0, 1)
  /\ session
  /\ selectedCampaignId = 1
  /\ table = "senders"
  /\ budget = MaxActs - 1
SpecRequests == InitRequests /\ [][NextRequests]_vars

\* ---------------------------------------------------------------- claims
\* C1: next and previous clicks never change an entry already stored in
\* pageKeys, and the one list request such a click causes carries the entry
\* stored for the page it moves to, so a page is fetched with the same cursor
\* on every visit: the one memoized when the page was first reached.
C1_CursorStable ==
  [][lastOp' \in {"next", "prev"} =>
       /\ \A i \in DOMAIN pageKeys : i \in DOMAIN pageKeys' /\ pageKeys'[i] = pageKeys[i]
       /\ BagCardinality(Issued) = 1
       /\ \A r \in BagToSet(Issued) : r.lastKey = KeyAt(pageKeys', pageIndex')]_vars

\* Page 1 is entered again after the first page was fetched anew and the
\* server answered with another cursor than the memoized one.
C1_Revisit ==
  /\ lastOp = "next"
  /\ pageIndex = 1
  /\ Len(pageKeys) = 2
  /\ pageKeys[2] # lastEvaluatedKey

\* C2: a successful create or delete sends a list request for the empty
\* cursor; a successful update sends one for pageKeys[pageIndex], the cursor
\* of the page that is current when the update succeeds.
C2_Claim ==
  [][/\ lastOp' \in {"created", "deleted"} =>
          \E r \in BagToSet(Issued) : r.lastKey = ""
     /\ lastOp' = "updated" =>
          \E r \in BagToSet(Issued) : r.lastKey = KeyAt(pageKeys, pageIndex)]_vars

\* C3: a page-size change and a search commit both leave pageIndex = 0 and
\* pageKeys = [""], whatever the page and the cursor history were.
C3_ResetOnSizeOrSearch ==
  [][lastOp' \in {"pageSize", "commit"} => pageIndex' = 0 /\ pageKeys' = <<"">>]_vars

\* A search is committed while the rows of a page other than the first are
\* shown, in a table whose page size was changed before.
C3_Witness ==
  /\ lastOp = "commit"
  /\ pageSize # InitialPageSize
  /\ data # <<>> /\ data[1].lastKey # ""
  /\ pageIndex = 0 /\ pageKeys = <<"">>

\* C4, as claimed: at every point hasNextPage is true exactly when the most
\* recent list response included a non-empty lastEvaluatedKey.
C4_Claim == hasNextPage <=> lastRespKey \in Cursors

\* C4, amended: hasNextPage is true only if the most recent successful list
\* response included a non-empty lastEvaluatedKey, and right after a
\* successful response it is true exactly when that response included one.
C4_Amended ==
  /\ hasNextPage => lastRespKey \in Cursors
  /\ lastOp = "listOk" => (hasNextPage <=> lastRespKey \in Cursors)

\* The table is reset by a page-size change after a response that carried a
\* cursor: Next is off until the refetch is answered.
C4_Witness ==
  /\ lastOp = "pageSize"
  /\ lastRespKey \in Cursors
  /\ ~hasNextPage

\* C5: whenever no list request is in flight, hasPreviousPage is true exactly
\* when pageIndex > 0.
C5_Claim == inflight = EmptyBag => (hasPreviousPage <=> pageIndex > 0)

\* C6: pageKeys[0] = "" and 0 <= pageIndex < length(pageKeys) in every state.
C6_Claim ==
  /\ pageKeys[1] = ""
  /\ 0 <= pageIndex
  /\ pageIndex < Len(pageKeys)

\* C7: at most one debounce timer is pending, it holds the value of the last
\* keystroke and is due 500 ms after that keystroke; the search commit runs
\* exactly then, commits that value and leaves no timer behind, so a burst of
\* keystrokes ends in one commit of its final value.
C7_Debounce ==
  /\ [](/\ Cardinality(timers) <= 1
        /\ \A t \in timers : t.value = searchInput /\ t.left = DebounceMs - sinceKey)
  /\ [][lastOp' = "commit" =>
          /\ sinceKey = DebounceMs
          /\ searchTerm' = searchInput
          /\ timers' = {}]_vars

\* A burst of two keystrokes has just been committed.
C7_Witness ==
  /\ lastOp = "commit"
  /\ burst = 2
  /\ searchTerm = searchInput

C9_Claim ==
  [][lastOp' \in {"next", "prev", "pageSize", "commit", "created", "deleted"} =>
       /\ BagCardinality(Issued) = 1
       /\ \A r \in BagToSet(Issued) : r.via = "effect"]_vars

\* C10, as claimed: after next, next, previous against the three-page server
\* the requests were for "", c1 and "" again.
C10_Claim ==
  clicks = <<"next", "next", "previous">> => log = <<"", AllCursors[1], "">>

\* C10, amended: after next, next, previous the requests were for "", c1, c2
\* and then c1 again, read back from pageKeys; "", c1, "" is the record of
\* next, previous; and every request is for an entry of pageKeys.
C10_Amended ==
  /\ clicks = <<"next", "next", "previous">> =>
       log = <<"", AllCursors[1], AllCursors[2], AllCursors[1]>>
  /\ clicks = <<"next", "previous">> => log = <<"", AllCursors[1], "">>
  /\ pageIndex + 1 \in DOMAIN pageKeys
  /\ \A i \in DOMAIN log : log[i] \in {"", AllCursors[1], AllCursors[2]}

\* Next was clicked twice, then Previous, and the last response has arrived.
C10_Witness ==
  /\ clicks = <<"next", "next", "previous">>
  /\ ~loading
  /\ pageIndex = 1

\* C11: a call of handleNextPage while hasNextPage is false or the last
\* returned cursor is empty changes no controller state and sends no request;
\* any other call increases pageIndex by exactly one, keeps every existing
\* entry of pageKeys, appends nothing but the last returned cursor, appends it
\* only when pageIndex + 1 is not yet an index of pageKeys, and does append it
\* when pageIndex + 1 is the first free index.
C11_NextPageFrame ==
  [][clicks' = Append(clicks, "next") =>
       IF hasNextPage /\ lastEvaluatedKey # ""
       THEN /\ pageIndex' = pageIndex + 1
            /\ pageKeys' \in {pageKeys, Append(pageKeys, lastEvaluatedKey)}
            /\ pageKeys' # pageKeys => pageIndex + 2 \notin DOMAIN pageKeys
            /\ pageIndex + 1 = Len(pageKeys) => pageKeys' # pageKeys
       ELSE UNCHANGED ctlVars]_vars

\* handleNextPage moved to page 1, the server answered without a cursor, and
\* a second call of handleNextPage left everything as the response set it.
C11_Witness ==
  /\ clicks = <<"next", "next">>
  /\ lastOp = "listOk"
  /\ ~hasNextPage
  /\ pageIndex = 1
  /\ inflight = EmptyBag

\* C12: no request of a delete or of an archive toggle is in flight unless
\* the handler that sent it first showed the blocking confirmation and the
\* user accepted it.
C12_Claim ==
  \A m \in BagToSet(mutations) :
    m.kind \in {"delete", "getOne", "toggle"} => m.confirmed

\* C13: a list request leaves the set of requests in flight only through its
\* own response, never by being aborted, and every successful response, also
\* one that arrives while other list requests are in flight or after the
\* response of a request sent later, overwrites data, lastEvaluatedKey and
\* hasNextPage with its own page and cursor: the response that arrives last
\* determines them.
C13_LastResponseWins ==
  [][/\ inflight (-) inflight' # EmptyBag => lastOp' \in {"listOk", "listFail"}
     /\ lastOp' = "listOk" =>
          /\ \E r \in BagToSet(inflight (-) inflight') :
               data' = <<[lastKey |-> r.lastKey, limit |-> r.limit, search |-> r.search]>>
          /\ lastEvaluatedKey' = lastRespKey'
          /\ hasNextPage' = (lastRespKey' # "")]_vars

\* After a create on page 1 the handler's request and the effect's overlapped;
\* the handler's, sent first with the closure of page 1, was answered last.
C13_Witness ==
  /\ lastOp = "listOk"
  /\ inflight = EmptyBag
  /\ mutations = EmptyBag
  /\ pageIndex = 0 /\ hasPreviousPage
  /\ data # <<>> /\ data[1].lastKey = ""

C15_FailedFetchFrame ==
  [][(inflight' # inflight /\ lastOp' = "listFail") =>
       /\ error'
       /\ ~loading'
       /\ UNCHANGED <<data, pageIndex, pageKeys, lastEvaluatedKey, hasNextPage,
                      hasPreviousPage>>]_vars

\* A fetch of the second page failed while the first page's rows were shown.
C15_Witness ==
  /\ lastOp = "listFail"
  /\ error
  /\ ~loading
  /\ data # <<>>
  /\ pageIndex = 1
  /\ hasNextPage

\* C17: every successful mutation is followed by a refetch of the view that
\* shows the mutated entity: the step that handles a successful create, update,
\* delete or archive toggle sends a list request, and the step that handles a
\* successful schedule delete sends the calendar's schedule list request.
C17_Claim ==
  [][/\ lastOp' \in {"created", "updated", "deleted", "archived"} /\ mutations' # mutations
          => inflight' (-) inflight # EmptyBag
     /\ lastOp' = "scheduleDeleted" /\ deletes' # deletes
          => ListCall \in calls']_vars

\* C18: once the calendar load has ended, the event list holds exactly one
\* event per returned schedule, in the order returned; the event of a schedule
\* whose campaign lookup failed has no campaign, every other has its campaign.
C18_OneEventPerSchedule ==
  ~calendarLoading =>
    /\ Len(events) = Len(schedules)
    /\ \A i \in DOMAIN events :
         /\ events[i].schedule = schedules[i]
         /\ i \in lookupFailed => events[i].campaign = <<>>
         /\ i \notin lookupFailed =>
              /\ events[i].campaign # <<>>
              /\ events[i].campaign[1].id = schedules[i].campaignId

\* Two schedules were returned, the second before the first; the lookup of the
\* first one listed failed, and both are shown.
C18_Witness ==
  /\ ~calendarLoading
  /\ lastOp = "calendarLoaded"
  /\ Len(events) = 2
  /\ events[1].schedule.id = 2
  /\ lookupFailed = {1}
  /\ events[2].campaign # <<>>

\* C19: during the calendar load at most one campaign lookup is in flight, and
\* the lookup of schedule i+1 is in flight only after lookup i has completed.
C19_SequentialLookups ==
  /\ Cardinality(Lookups(calls)) <= 1
  /\ \A call \in Lookups(calls) : Len(calendarEvents) = call.index - 1

\* The second lookup is in flight after the first one completed.
C19_Witness ==
  /\ LookupCall(2) \in calls
  /\ Len(calendarEvents) = 1
  /\ calendarLoading

\* C20: when the related-data lookups of the schedule modal have all settled,
\* an entity whose lookup failed is null, every entity whose lookup succeeded
\* is stored, loading has ended and no error path was taken.
C20_IndependentLookups ==
  [][lastRun' # lastRun =>
       LET run == lastRun'[1]
           stored == [k \in Kinds |-> IF k = "audience" THEN audience'
                                      ELSE IF k = "sender" THEN sender' ELSE template']
       IN  /\ lastOp' = "relatedLoaded"
           /\ ~modalLoading'
           /\ \A k \in run.failed : stored[k] = Null
           /\ \A k \in run.has \ run.failed : stored[k] = Entity(k, run.campaign)]_vars

\* The sender lookup failed; the audience and the template are stored.
C20_Witness ==
  /\ lastOp = "relatedLoaded"
  /\ lastRun # <<>>
  /\ lastRun[1].failed = {"sender"}
  /\ sender = Null
  /\ audience # Null
  /\ template # Null
  /\ ~modalLoading

\* The requests awaiting their response (those of the schedule modal apart).
Outstanding ==
  BagCardinality(inflight) + BagCardinality(mutations) + Cardinality(calls)
    + BagCardinality(deletes) + sends

\* The step handles a request that failed; the step sends no request: no
\* request is new and the failed one is gone.
FailedStep ==
  \/ lastOp' \in {"listFail", "mutationFail", "calendarFail", "scheduleDeleteFail", "sendFail"}
  \/ lookupFailed' # lookupFailed
NoneIssued ==
  /\ inflight' \sqsubseteq inflight
  /\ mutations' \sqsubseteq mutations
  /\ calls' \subseteq calls
  /\ deletes' \sqsubseteq deletes
  /\ BagCardinality(related') <= BagCardinality(related)
  /\ sends' <= sends
  /\ Outstanding' < Outstanding

\* C16: no request is retried automatically: the step that handles a failed
\* request (list, load, mutation, send) sends no request at all.
C16_Claim == [][FailedStep => NoneIssued]_vars

\* C16 as the code has it: the step that handles a failed request sends no
\* request, except that a failed campaign lookup of the calendar load is
\* followed by the lookup of the next schedule (never by the failed one again).
C16_Amended ==
  [][FailedStep =>
       IF lookupFailed' # lookupFailed
       THEN /\ calls' \ calls \subseteq {LookupCall(Len(calendarEvents') + 1)}
            /\ \A i \in lookupFailed' : LookupCall(i) \notin calls'
            /\ inflight' \sqsubseteq inflight
            /\ mutations' \sqsubseteq mutations
            /\ deletes' \sqsubseteq deletes
            /\ BagCardinality(related') <= BagCardinality(related)
            /\ sends' <= sends
            /\ Outstanding' <= Outstanding
       ELSE NoneIssued]_vars

\* A list fetch, a campaign lookup and a send have failed, the send last, and
\* nothing is in flight.
C16_Witness ==
  /\ lastOp = "sendFail"
  /\ error
  /\ lookupFailed # {}
  /\ ~sending
  /\ sends = 0
  /\ inflight = EmptyBag
  /\ mutations = EmptyBag
  /\ calls = {}

\* C21: for every displayed month the grid is 42 consecutive days, begins on
\* the Sunday on or before the first of the month, and holds every day of the
\* month.
C21_MonthGrid ==
  LET days == getMonthDays(currentDate)
      y == getFullYear(currentDate)
      m == getMonth(currentDate)
      first == MakeDate(y, m, 1)
  IN  /\ Len(days) = GridCells
      /\ \A i \in 1..(Len(days) - 1) : days[i + 1] = days[i] + 1
      /\ getDay(days[1]) = 0
      /\ days[1] <= first
      /\ first - days[1] < 7
      /\ \A d \in 1..DaysIn(y, m) : \E i \in DOMAIN days : days[i] = MakeDate(y, m, d)

\* February of a leap year, reached by "next": the month begins on a Thursday.
C21_Witness ==
  /\ lastOp = "monthNext"
  /\ getMonth(currentDate) = 1
  /\ IsLeap(getFullYear(currentDate))
  /\ getDay(MakeDate(getFullYear(currentDate), 1, 1)) = 4

\* C30: "next" shows exactly the following calendar month and "prev" exactly
\* the preceding one, whatever the day of the current date.
MonthIndex(t) == 12 * getFullYear(t) + getMonth(t)
C30_Claim ==
  [][/\ lastOp' = "monthNext" /\ currentDate' # currentDate
          => MonthIndex(currentDate') = MonthIndex(currentDate) + 1
     /\ lastOp' = "monthPrev" /\ currentDate' # currentDate
          => MonthIndex(currentDate') = MonthIndex(currentDate) - 1]_vars

\* The sender form does not pass validation: the email is missing or not an
\* address, or no alias or no email type is given.
InvalidForm ==
  /\ table = "senders"
  /\ \/ formData.values["email"] \in {"", " ", "bad"}
     \/ formData.values["alias"] = ""
     \/ formData.values["emailType"] = ""

\* C22: a submit whose form fails validation sends no request, leaves the form
\* open and reports the failure; a send with an invalid receiver list sends
\* no request either.
C22_NoRequestWhenInvalid ==
  [][/\ (lastOp' \in {"submitRejected", "submitUpdate"} /\ InvalidForm)
          => /\ mutations' = mutations
             /\ isEditModalOpen'
             /\ formData' = formData
             /\ errors' # {}
     /\ lastOp' = "sendInvalid" => (sends' = sends /\ ~sending')]_vars

\* A loaded sender without alias was submitted: the alias error is shown, the
\* modal is open and nothing was sent.
C22_Witness ==
  /\ lastOp = "submitRejected"
  /\ table = "senders"
  /\ formData.origin # 0
  /\ "alias" \in errors
  /\ isEditModalOpen
  /\ mutations = EmptyBag

\* C23: the update request of an edit modal carries the user field, carries
\* only fields whose form value is not empty, and omits every empty field.
C23_OnlyNonEmptyFields ==
  \A m \in BagToSet(mutations) :
    "payload" \in DOMAIN m =>
      /\ "user" \in DOMAIN m.payload
      /\ DOMAIN m.payload \subseteq FormFields(table) \cup {"user"}
      /\ \A f \in FormFields(table) :
           /\ f \in DOMAIN m.payload => m.form.values[f] # ""
           /\ m.form.values[f] = "" => f \notin DOMAIN m.payload

\* A campaign whose audience is not set was submitted: the request names the
\* campaign's name and leaves the audience out.
C23_Witness ==
  /\ table = "campaigns"
  /\ \E m \in BagToSet(mutations) :
       /\ "payload" \in DOMAIN m
       /\ "name" \in DOMAIN m.payload
       /\ "audienceId" \notin DOMAIN m.payload

\* C27: the form values an update request for record X carries were loaded
\* from record X.
C27_Claim ==
  \A m \in BagToSet(mutations) : "payload" \in DOMAIN m => m.form.origin = m.id

\* C24: a request for a page made without a session renders no page content
\* and leaves the browser at the login route.
C24_Claim ==
  (lastOp = "visit" /\ ~session) => (content = "" /\ route = "/auth/login")

C26_Claim ==
  (mounted /\ inflight # EmptyBag) => (loading /\ ~Rendered)

\* C25: the cursor of a list request was returned by a response to a request
\* with the same limit and the same search as the request that carries it.
C25_Claim ==
  \A req \in BagToSet(inflight) :
     req.lastKey # "" =>
       [lastKey |-> req.lastKey, limit |-> req.limit, search |-> req.search] \in minted

\* The state the controller holds, and the error state with nothing pending.
controller ==
  <<data, loading, error, pageIndex, pageSize, lastEvaluatedKey, hasNextPage,
    hasPreviousPage, pageKeys, searchTerm, searchInput, timeoutId>>
ErrorIdle == mounted /\ error /\ inflight = EmptyBag /\ timers = {}

====
